---- MODULE Spec2Model ----
(***************************************************************************)
(* A model of gimli's src/read/dwarf.rs: the `Dwarf` section aggregate,    *)
(* its attribute resolvers, and the construction of a `DwarfUnit`.         *)
(*                                                                         *)
(* The section decoders dwarf.rs calls (get_str, get_str_offset,           *)
(* get_address, get_offset, the range- and location-list iterators, the    *)
(* abbreviation decoder, the entry cursor and the line-program             *)
(* constructor) live in other files of the crate; they are modelled here   *)
(* from their documented contract.  Sections of bytes are sequences of     *)
(* numbers in 0..255, an offset o names the byte at index o + 1.           *)
(***************************************************************************)
EXTENDS Integers, Sequences, FiniteSets

\* ------------------------------------------------------------------------
\* Result<T>, Option<T> and AttributeValue
\* ------------------------------------------------------------------------

None == [tag |-> "None"]

Some(v) == [tag |-> "Some", val |-> v]

Ok(v) == [tag |-> "Ok", val |-> v]

Err(e) == [tag |-> "Err", err |-> e]

IsOk(r) == r.tag = "Ok"

IsErr(r) == r.tag = "Err"

\* One variant of the AttributeValue enum: `form` is the variant, `val` its
\* numeric payload (an offset, index, base or address) and `str` the bytes of
\* the inline String variant.
AV(form, val) == [form |-> form, val |-> val, str |-> <<>>]

AVString(bytes) == [form |-> "String", val |-> 0, str |-> bytes]

\* ------------------------------------------------------------------------
\* Reading primitives of the section handles
\* ------------------------------------------------------------------------

RECURSIVE LittleEndian(_)
LittleEndian(bytes) ==
  IF bytes = <<>> THEN 0 ELSE Head(bytes) + 256 * LittleEndian(Tail(bytes))

\* Read a `width`-byte unsigned integer at byte position `pos`.
ReadUint(section, pos, width) ==
  IF pos + width > Len(section)
  THEN Err("UnexpectedEof")
  ELSE Ok(LittleEndian(SubSeq(section, pos + 1, pos + width)))

\* Format::word_size: 4 bytes for 32-bit DWARF, 8 bytes for 64-bit DWARF.
WordSize(format) == IF format = "Dwarf64" THEN 8 ELSE 4

\* DebugStr::get_str, DebugLineStr::get_str: the null-terminated byte run
\* that starts at `offset`.
get_str(section, offset) ==
  IF offset > Len(section)
  THEN Err("UnexpectedEof")
  ELSE LET nuls == {i \in (offset + 1)..Len(section) : section[i] = 0}
       IN  IF nuls = {}
           THEN Err("UnexpectedEof")
           ELSE LET nul == CHOOSE i \in nuls : \A j \in nuls : i <= j
                IN  Ok(SubSeq(section, offset + 1, nul - 1))

\* DebugStrOffsets::get_str_offset: the offset stored at
\* base + index * word_size of the string-offsets table.
get_str_offset(section, format, base, index) ==
  ReadUint(section, base + index * WordSize(format), WordSize(format))

\* DebugAddr::get_address: the address stored at
\* base + index * address_size of the address table.
get_address(section, address_size, base, index) ==
  ReadUint(section, base + index * address_size, address_size)

\* RangeLists::get_offset, LocationLists::get_offset: the list offset stored
\* at base + index * word_size of the section's offsets table.
get_offset(lists, encoding, base, index) ==
  ReadUint(lists.offsets, base + index * WordSize(encoding.format),
           WordSize(encoding.format))

\* RangeLists::ranges and LocationLists::locations: open an iterator at
\* `offset`.  The lists are kept decoded, one element per entry, and a list
\* offset counts entries.  The iterator owns its position, its active base
\* address, and the address table with the base it resolves indices against.
OpenListIter(kind, lists, offset, encoding, base_address, debug_addr, debug_addr_base) ==
  IF offset > Len(lists.entries)
  THEN Err("UnexpectedEof")
  ELSE Ok([kind |-> kind, entries |-> lists.entries, start |-> offset,
           pos |-> offset, last |-> 0, base_address |-> base_address,
           address_size |-> encoding.address_size,
           debug_addr |-> debug_addr, debug_addr_base |-> debug_addr_base,
           done |-> FALSE])

\* What an iterator yields for entry `e` covering begin..end: a Range, or a
\* LocationListEntry that also carries the entry's expression bytes.
Yielded(it, e, begin, end) ==
  IF it.kind = "loc"
  THEN Ok(Some([begin |-> begin, end |-> end, data |-> e.data]))
  ELSE Ok(Some([begin |-> begin, end |-> end]))

\* RngListIter::next and LocListIter::next: one pull.  Base-address entries
\* change the active base and are not yielded; the terminator, the end of the
\* section and a malformed entry end the iteration.
RECURSIVE ListIterNext(_)
ListIterNext(it) ==
  IF it.done \/ it.pos >= Len(it.entries)
  THEN [it |-> [it EXCEPT !.done = TRUE], ret |-> Ok(None)]
  ELSE LET e == it.entries[it.pos + 1]
           adv == [it EXCEPT !.pos = it.pos + 1, !.last = it.pos + 1]
           addr(i) == get_address(it.debug_addr, it.address_size, it.debug_addr_base, i)
       IN  CASE e.kind = "End" ->
                  [it |-> [adv EXCEPT !.done = TRUE], ret |-> Ok(None)]
             [] e.kind = "Bad" ->
                  [it |-> [adv EXCEPT !.done = TRUE], ret |-> Err("UnknownListEntry")]
             [] e.kind = "BaseAddress" ->
                  ListIterNext([adv EXCEPT !.base_address = e.begin])
             [] e.kind = "BaseAddressx" ->
                  IF IsErr(addr(e.begin))
                  THEN [it |-> adv, ret |-> addr(e.begin)]
                  ELSE ListIterNext([adv EXCEPT !.base_address = addr(e.begin).val])
             [] e.kind = "OffsetPair" ->
                  [it |-> adv,
                   ret |-> Yielded(it, e, it.base_address + e.begin, it.base_address + e.end)]
             [] e.kind = "StartEnd" ->
                  [it |-> adv, ret |-> Yielded(it, e, e.begin, e.end)]
             [] e.kind = "StartxEndx" ->
                  IF IsErr(addr(e.begin)) THEN [it |-> adv, ret |-> addr(e.begin)]
                  ELSE IF IsErr(addr(e.end)) THEN [it |-> adv, ret |-> addr(e.end)]
                  ELSE [it |-> adv,
                        ret |-> Yielded(it, e, addr(e.begin).val, addr(e.end).val)]

\* ------------------------------------------------------------------------
\* impl Dwarf: the resolvers
\* ------------------------------------------------------------------------

\* DwarfUnit::encoding: the header's encoding parameters.
encoding(unit) ==
  [format |-> unit.header.format, address_size |-> unit.header.address_size]

\* attr_string reading an inline string's payload as an offset into
\* debug_str.
attr_string_InlineAsRef(d, unit, attr) ==
  CASE attr.form \in {"String", "DebugStrRef"} -> get_str(d.debug_str, attr.val)
    [] attr.form = "DebugStrRefSup" -> get_str(d.debug_str_sup, attr.val)
    [] attr.form = "DebugLineStrRef" -> get_str(d.debug_line_str, attr.val)
    [] attr.form = "DebugStrOffsetsIndex" ->
         LET offset == get_str_offset(d.debug_str_offsets, unit.header.format,
                                      unit.str_offsets_base, attr.val)
         IN  IF IsErr(offset) THEN offset ELSE get_str(d.debug_str, offset.val)
    [] OTHER -> Err("ExpectedStringAttributeValue")

\* attr_string looking an indexed string up in the supplementary table.
attr_string_IndexInSup(d, unit, attr) ==
  CASE attr.form = "String" -> Ok(attr.str)
    [] attr.form = "DebugStrRef" -> get_str(d.debug_str, attr.val)
    [] attr.form = "DebugStrRefSup" -> get_str(d.debug_str_sup, attr.val)
    [] attr.form = "DebugLineStrRef" -> get_str(d.debug_line_str, attr.val)
    [] attr.form = "DebugStrOffsetsIndex" ->
         LET offset == get_str_offset(d.debug_str_offsets, unit.header.format,
                                      unit.str_offsets_base, attr.val)
         IN  IF IsErr(offset) THEN offset ELSE get_str(d.debug_str_sup, offset.val)
    [] OTHER -> Err("ExpectedStringAttributeValue")

attr_string(d, unit, attr) ==
  CASE attr.form = "String" -> Ok(attr.str)
    [] attr.form = "DebugStrRef" -> get_str(d.debug_str, attr.val)
    [] attr.form = "DebugStrRefSup" -> get_str(d.debug_str_sup, attr.val)
    [] attr.form = "DebugLineStrRef" -> get_str(d.debug_line_str, attr.val)
    [] attr.form = "DebugStrOffsetsIndex" ->
         LET offset == get_str_offset(d.debug_str_offsets, unit.header.format,
                                      unit.str_offsets_base, attr.val)
         IN  IF IsErr(offset) THEN offset ELSE get_str(d.debug_str, offset.val)
    [] OTHER -> Err("ExpectedStringAttributeValue")

address(d, unit, index) ==
  get_address(d.debug_addr, encoding(unit).address_size, unit.addr_base, index)

ranges_offset(d, unit, index) ==
  get_offset(d.ranges, encoding(unit), unit.rnglists_base, index)

\* ranges opening the iterator with base address 0 instead of the unit's
\* low_pc.
ranges_ZeroBase(d, unit, offset) ==
  OpenListIter("rng", d.ranges, offset, encoding(unit), 0, d.debug_addr, unit.addr_base)

ranges(d, unit, offset) ==
  OpenListIter("rng", d.ranges, offset, encoding(unit), unit.low_pc, d.debug_addr, unit.addr_base)

\* Result<T>::map(Some)
MapSome(r) == IF IsErr(r) THEN r ELSE Ok(Some(r.val))

\* attr_ranges_offset treating an unrelated attribute value as an error.
attr_ranges_offset_Strict(d, unit, attr) ==
  CASE attr.form = "RangeListsRef" -> Ok(Some(attr.val))
    [] attr.form = "DebugRngListsIndex" -> MapSome(ranges_offset(d, unit, attr.val))
    [] OTHER -> Err("UnsupportedAttributeForm")

attr_ranges_offset(d, unit, attr) ==
  CASE attr.form = "RangeListsRef" -> Ok(Some(attr.val))
    [] attr.form = "DebugRngListsIndex" -> MapSome(ranges_offset(d, unit, attr.val))
    [] OTHER -> Ok(None)

attr_ranges(d, unit, attr) ==
  LET offset == attr_ranges_offset(d, unit, attr)
  IN  IF IsErr(offset) THEN offset
      ELSE IF offset.val.tag = "None" THEN Ok(None)
      ELSE MapSome(ranges(d, unit, offset.val.val))

locations_offset(d, unit, index) ==
  get_offset(d.locations, encoding(unit), unit.loclists_base, index)

\* locations handing the iterator the unit's loclists_base as the base of
\* the address table.
locations_LoclistsBase(d, unit, offset) ==
  OpenListIter("loc", d.locations, offset, encoding(unit), unit.low_pc, d.debug_addr, unit.loclists_base)

locations(d, unit, offset) ==
  OpenListIter("loc", d.locations, offset, encoding(unit), unit.low_pc, d.debug_addr, unit.addr_base)

attr_locations_offset(d, unit, attr) ==
  CASE attr.form = "LocationListsRef" -> Ok(Some(attr.val))
    [] attr.form = "DebugLocListsIndex" -> MapSome(locations_offset(d, unit, attr.val))
    [] OTHER -> Ok(None)

attr_locations(d, unit, attr) ==
  LET offset == attr_locations_offset(d, unit, attr)
  IN  IF IsErr(offset) THEN offset
      ELSE IF offset.val.tag = "None" THEN Ok(None)
      ELSE MapSome(locations(d, unit, offset.val.val))

\* ------------------------------------------------------------------------
\* The aggregates, headers, unit contexts and attribute values explored
\* ------------------------------------------------------------------------

\* One list entry; `data` is the expression of a location-list entry.
Entry(kind, begin, end, data) ==
  [kind |-> kind, begin |-> begin, end |-> end, data |-> data]

\* Dwarf::default(): every section empty.
DwarfDefault ==
  [debug_abbrev |-> <<>>, debug_addr |-> <<>>, debug_info |-> <<>>,
   debug_line |-> <<>>, debug_line_str |-> <<>>, debug_str |-> <<>>,
   debug_str_offsets |-> <<>>, debug_str_sup |-> <<>>, debug_types |-> <<>>,
   locations |-> [offsets |-> <<>>, entries |-> <<>>],
   ranges |-> [offsets |-> <<>>, entries |-> <<>>]]

\* The lists of the populated aggregate.  At offset 0: a pair relative to the
\* unit's low_pc, a new base, a pair relative to it, an indexed base, a pair
\* relative to that, an indexed pair, an absolute pair, the terminator.  At
\* offset 9: a pair and a malformed entry.  At offset 11: a list the section
\* ends in.
ListEntries ==
  << Entry("OffsetPair", 1, 2, 7), Entry("BaseAddress", 64, 0, 0),
     Entry("OffsetPair", 1, 2, 8), Entry("BaseAddressx", 1, 0, 0),
     Entry("OffsetPair", 3, 4, 9), Entry("StartxEndx", 0, 1, 10),
     Entry("StartxEndx", 1, 9, 11), Entry("StartEnd", 5, 6, 12),
     Entry("End", 0, 0, 0),
     Entry("OffsetPair", 3, 4, 13), Entry("Bad", 0, 0, 0),
     Entry("StartEnd", 7, 8, 14) >>

\* A populated aggregate.  debug_str is "ab\0c\0d" (the last string lacks
\* its terminator), debug_str_sup "x\0y\0", debug_line_str "l\0".  The
\* offsets tables hold the 4-byte words 3 0 5 0 0, the address table the
\* words 16 0 32 0 48 0, all little-endian.  debug_abbrev holds, by offset,
\* a well-formed table (1) and a malformed one (0).
DwarfFull ==
  [debug_abbrev |-> <<1, 0>>,
   debug_addr |-> <<16,0,0,0, 0,0,0,0, 32,0,0,0, 0,0,0,0, 48,0,0,0, 0,0,0,0>>,
   debug_info |-> <<>>,
   debug_line |-> <<1, 1, 1, 1>>,
   debug_line_str |-> <<108, 0>>,
   debug_str |-> <<97, 98, 0, 99, 0, 100>>,
   debug_str_offsets |-> <<3,0,0,0, 0,0,0,0, 5,0,0,0, 0,0,0,0, 0,0,0,0>>,
   debug_str_sup |-> <<120, 0, 121, 0>>,
   debug_types |-> <<>>,
   locations |-> [offsets |-> <<3,0,0,0, 0,0,0,0, 5,0,0,0, 0,0,0,0, 0,0,0,0>>,
                  entries |-> ListEntries],
   ranges |-> [offsets |-> <<3,0,0,0, 0,0,0,0, 5,0,0,0, 0,0,0,0, 0,0,0,0>>,
               entries |-> ListEntries]]

Dwarfs == {DwarfDefault, DwarfFull}

\* The largest index and offset a resolver is called with.
MaxIndex == 3

MaxOffset == 13

\* Unit headers: offset format, address size, the offset of the unit's
\* abbreviations, and what the unit's entries start with: nothing, an entry
\* that fails to parse, or a root entry.
Headers ==
  [format : {"Dwarf32", "Dwarf64"}, address_size : {4, 8},
   debug_abbrev_offset : {0, 1, 2}, first_entry : {"none", "malformed", "die"}]

BaseValues == {0, 8}

LowPcValues == {0, 16}

\* Unit contexts the resolvers are called with (every field of DwarfUnit is
\* public, so a context need not come from DwarfUnit::new).
Units ==
  [header : {h \in Headers : h.debug_abbrev_offset = 0 /\ h.first_entry = "die"},
   abbreviations : {0}, name : {None}, comp_dir : {None},
   low_pc : LowPcValues, str_offsets_base : BaseValues, addr_base : BaseValues,
   loclists_base : BaseValues, rnglists_base : BaseValues, line_program : {None}]

Forms ==
  {"DebugStrRef", "DebugStrRefSup", "DebugLineStrRef", "DebugStrOffsetsIndex",
   "Addr", "Udata", "DebugLineRef", "DebugStrOffsetsBase", "DebugAddrBase",
   "DebugLocListsBase", "DebugRngListsBase", "RangeListsRef",
   "DebugRngListsIndex", "LocationListsRef", "DebugLocListsIndex"}

\* The attribute values the resolvers are called with.
AttrValues ==
  {AV(f, v) : f \in Forms, v \in 0..MaxIndex}
    \cup {AV("RangeListsRef", MaxOffset), AV("LocationListsRef", MaxOffset)}
    \cup {AVString(<<>>), AVString(<<104, 105>>)}

\* ------------------------------------------------------------------------
\* State
\* ------------------------------------------------------------------------

VARIABLES
  dwarf,      \* the Dwarf aggregate
  header,     \* the header DwarfUnit::new was called with
  pc,         \* where DwarfUnit::new stands
  locals,     \* the local variables of DwarfUnit::new
  scanned,    \* the root entry's attributes the scan has read so far
  result,     \* what DwarfUnit::new returned
  unit,       \* the unit context the resolvers are called with
  call,       \* the last resolver call: its name and argument
  ret,        \* what the last resolver call or iterator pull returned
  iter        \* the open range- or location-list iterator

vars == <<dwarf, header, pc, locals, scanned, result, unit, call, ret, iter>>

newVars == <<header, pc, locals, scanned, result>>

\* ------------------------------------------------------------------------
\* DwarfUnit::new
\* ------------------------------------------------------------------------

\* UnitHeader::abbreviations: decode the abbreviations at the header's
\* offset into debug_abbrev; the decoded table is named by its offset.
header_abbreviations(debug_abbrev, h) ==
  IF h.debug_abbrev_offset >= Len(debug_abbrev) THEN Err("UnexpectedEof")
  ELSE IF debug_abbrev[h.debug_abbrev_offset + 1] = 0 THEN Err("AbbreviationTagZero")
  ELSE Ok(h.debug_abbrev_offset)

\* EntriesCursor::next_dfs followed by current(): the root entry, no entry,
\* or the error of an entry that fails to parse.
cursor_root(h) ==
  CASE h.first_entry = "malformed" -> Err("UnknownAbbreviation")
    [] h.first_entry = "none" -> Ok(None)
    [] h.first_entry = "die" -> Ok(Some("root"))

\* DebugLine::program: the line-number-program skeleton at `offset`, seeded
\* with the address size, the working directory and the primary file name.
debug_line_program(debug_line, offset, address_size, comp_dir, name) ==
  IF offset >= Len(debug_line)
  THEN Err("UnexpectedEof")
  ELSE Ok([offset |-> offset, address_size |-> address_size,
           comp_dir |-> comp_dir, name |-> name])

\* RootEntry without the check of line 315: a unit without entries passes
\* for one with an empty root entry.
RootEntry_Unchecked(h) ==
  IF IsErr(cursor_root(h)) THEN cursor_root(h) ELSE Ok("root")

\* Lines 314-315: cursor.next_dfs()?, then cursor.current() or the error
\* MissingUnitDie.
RootEntry(h) ==
  IF IsErr(cursor_root(h)) THEN cursor_root(h)
  ELSE IF cursor_root(h).val = None THEN Err("MissingUnitDie")
  ELSE Ok(cursor_root(h).val.val)

\* NewLocals with the string-offsets base starting after an 8-byte table
\* header instead of at 0.
NewLocals_HeaderSized(abbreviations) ==
  [abbreviations |-> abbreviations, name |-> None, comp_dir |-> None,
   low_pc |-> 0, str_offsets_base |-> 8, addr_base |-> 0,
   loclists_base |-> 0, rnglists_base |-> 0, line_program_offset |-> None,
   line_program |-> None]

\* The local variables as lines 302-310 initialise them.
NewLocals(abbreviations) ==
  [abbreviations |-> abbreviations, name |-> None, comp_dir |-> None,
   low_pc |-> 0, str_offsets_base |-> 0, addr_base |-> 0,
   loclists_base |-> 0, rnglists_base |-> 0, line_program_offset |-> None,
   line_program |-> None]

\* ScanAttr with the targets of the last two arms exchanged.
ScanAttr_SwappedBases(l, attr) ==
  CASE attr.name = "DW_AT_name" -> [l EXCEPT !.name = Some(attr.value)]
    [] attr.name = "DW_AT_comp_dir" -> [l EXCEPT !.comp_dir = Some(attr.value)]
    [] attr.name = "DW_AT_low_pc" ->
         IF attr.value.form = "Addr"
         THEN [l EXCEPT !.low_pc = attr.value.val] ELSE l
    [] attr.name = "DW_AT_stmt_list" ->
         IF attr.value.form = "DebugLineRef"
         THEN [l EXCEPT !.line_program_offset = Some(attr.value.val)] ELSE l
    [] attr.name = "DW_AT_str_offsets_base" ->
         IF attr.value.form = "DebugStrOffsetsBase"
         THEN [l EXCEPT !.str_offsets_base = attr.value.val] ELSE l
    [] attr.name = "DW_AT_addr_base" ->
         IF attr.value.form = "DebugAddrBase"
         THEN [l EXCEPT !.addr_base = attr.value.val] ELSE l
    [] attr.name = "DW_AT_loclists_base" ->
         IF attr.value.form = "DebugLocListsBase"
         THEN [l EXCEPT !.rnglists_base = attr.value.val] ELSE l
    [] attr.name = "DW_AT_rnglists_base" ->
         IF attr.value.form = "DebugRngListsBase"
         THEN [l EXCEPT !.loclists_base = attr.value.val] ELSE l
    [] OTHER -> l

\* ScanAttr storing a value whatever its form.
ScanAttr_AnyForm(l, attr) ==
  CASE attr.name = "DW_AT_name" -> [l EXCEPT !.name = Some(attr.value)]
    [] attr.name = "DW_AT_comp_dir" -> [l EXCEPT !.comp_dir = Some(attr.value)]
    [] attr.name = "DW_AT_low_pc" -> [l EXCEPT !.low_pc = attr.value.val]
    [] attr.name = "DW_AT_stmt_list" ->
         [l EXCEPT !.line_program_offset = Some(attr.value.val)]
    [] attr.name = "DW_AT_str_offsets_base" ->
         [l EXCEPT !.str_offsets_base = attr.value.val]
    [] attr.name = "DW_AT_addr_base" -> [l EXCEPT !.addr_base = attr.value.val]
    [] attr.name = "DW_AT_loclists_base" ->
         [l EXCEPT !.loclists_base = attr.value.val]
    [] attr.name = "DW_AT_rnglists_base" ->
         [l EXCEPT !.rnglists_base = attr.value.val]
    [] OTHER -> l

\* The body of the scan loop: the match on the attribute's name.
ScanAttr(l, attr) ==
  CASE attr.name = "DW_AT_name" -> [l EXCEPT !.name = Some(attr.value)]
    [] attr.name = "DW_AT_comp_dir" -> [l EXCEPT !.comp_dir = Some(attr.value)]
    [] attr.name = "DW_AT_low_pc" ->
         IF attr.value.form = "Addr"
         THEN [l EXCEPT !.low_pc = attr.value.val] ELSE l
    [] attr.name = "DW_AT_stmt_list" ->
         IF attr.value.form = "DebugLineRef"
         THEN [l EXCEPT !.line_program_offset = Some(attr.value.val)] ELSE l
    [] attr.name = "DW_AT_str_offsets_base" ->
         IF attr.value.form = "DebugStrOffsetsBase"
         THEN [l EXCEPT !.str_offsets_base = attr.value.val] ELSE l
    [] attr.name = "DW_AT_addr_base" ->
         IF attr.value.form = "DebugAddrBase"
         THEN [l EXCEPT !.addr_base = attr.value.val] ELSE l
    [] attr.name = "DW_AT_loclists_base" ->
         IF attr.value.form = "DebugLocListsBase"
         THEN [l EXCEPT !.loclists_base = attr.value.val] ELSE l
    [] attr.name = "DW_AT_rnglists_base" ->
         IF attr.value.form = "DebugRngListsBase"
         THEN [l EXCEPT !.rnglists_base = attr.value.val] ELSE l
    [] OTHER -> l

\* LineProgram with the name passed for the directory and the directory for
\* the name.
LineProgram_SwappedNames(d, h, l) ==
  debug_line_program(d.debug_line, l.line_program_offset.val, h.address_size,
                     l.name, l.comp_dir)

\* The line program of lines 360-368, for a captured offset.
LineProgram(d, h, l) ==
  debug_line_program(d.debug_line, l.line_program_offset.val, h.address_size,
                     l.comp_dir, l.name)

\* The DwarfUnit of lines 370-381.
AssembleUnit(h, l) ==
  [header |-> h, abbreviations |-> l.abbreviations, name |-> l.name,
   comp_dir |-> l.comp_dir, low_pc |-> l.low_pc,
   str_offsets_base |-> l.str_offsets_base, addr_base |-> l.addr_base,
   loclists_base |-> l.loclists_base, rnglists_base |-> l.rnglists_base,
   line_program |-> l.line_program]

Attr(name, value) == [name |-> name, value |-> value]

\* The most attributes a root entry has.
MaxAttrs == 3

\* The attributes a root entry is made of: for each name the scan looks at,
\* values of the expected form and values of another form.
RootAttrs ==
  {Attr("DW_AT_name", AVString(<<97>>)), Attr("DW_AT_name", AV("DebugStrRef", 0)),
   Attr("DW_AT_comp_dir", AVString(<<100>>)), Attr("DW_AT_comp_dir", AV("DebugLineStrRef", 0)),
   Attr("DW_AT_low_pc", AV("Addr", 16)), Attr("DW_AT_low_pc", AV("Addr", 32)),
   Attr("DW_AT_low_pc", AV("Udata", 16)),
   Attr("DW_AT_stmt_list", AV("DebugLineRef", 0)), Attr("DW_AT_stmt_list", AV("DebugLineRef", 2)),
   Attr("DW_AT_stmt_list", AV("DebugLineRef", 9)), Attr("DW_AT_stmt_list", AV("Udata", 0)),
   Attr("DW_AT_str_offsets_base", AV("DebugStrOffsetsBase", 8)),
   Attr("DW_AT_str_offsets_base", AV("DebugStrOffsetsBase", 16)),
   Attr("DW_AT_str_offsets_base", AV("DebugAddrBase", 12)),
   Attr("DW_AT_addr_base", AV("DebugAddrBase", 8)),
   Attr("DW_AT_addr_base", AV("DebugAddrBase", 16)),
   Attr("DW_AT_addr_base", AV("Udata", 12)),
   Attr("DW_AT_loclists_base", AV("DebugLocListsBase", 8)),
   Attr("DW_AT_loclists_base", AV("DebugLocListsBase", 16)),
   Attr("DW_AT_loclists_base", AV("DebugRngListsBase", 12)),
   Attr("DW_AT_rnglists_base", AV("DebugRngListsBase", 8)),
   Attr("DW_AT_rnglists_base", AV("DebugRngListsBase", 16)),
   Attr("DW_AT_rnglists_base", AV("DebugLocListsBase", 12)),
   Attr("DW_AT_producer", AV("DebugAddrBase", 20))}

InitNew ==
  /\ dwarf \in Dwarfs
  /\ header \in Headers
  /\ pc = "abbreviations"
  /\ locals = None
  /\ scanned = <<>>
  /\ result = None
  /\ unit = None
  /\ call = None
  /\ ret = None
  /\ iter = None

\* DwarfUnit::new returns the error `e`.
Fails(e) ==
  /\ pc' = "done"
  /\ result' = e

\* Lines 301-310: decode the abbreviations, initialise the locals.
NewAbbreviations ==
  /\ pc = "abbreviations"
  /\ LET abbreviations == header_abbreviations(dwarf.debug_abbrev, header)
     IN  IF IsErr(abbreviations)
         THEN Fails(abbreviations) /\ UNCHANGED locals
         ELSE /\ locals' = NewLocals(abbreviations.val)
              /\ pc' = "root"
              /\ UNCHANGED result
  /\ UNCHANGED <<dwarf, header, scanned, unit, call, ret, iter>>

\* Lines 313-316: advance the cursor to the root entry.
NewRoot ==
  /\ pc = "root"
  /\ IF IsErr(RootEntry(header))
     THEN Fails(RootEntry(header))
     ELSE pc' = "scan" /\ UNCHANGED result
  /\ UNCHANGED <<dwarf, header, locals, scanned, unit, call, ret, iter>>

\* Lines 317-357, one turn of the loop: attrs.next() yields an attribute.
NewAttr ==
  /\ pc = "scan"
  /\ Len(scanned) < MaxAttrs
  /\ \E attr \in RootAttrs :
       /\ scanned' = Append(scanned, attr)
       /\ locals' = ScanAttr(locals, attr)
  /\ UNCHANGED <<dwarf, header, pc, result, unit, call, ret, iter>>

\* Line 317: attrs.next() fails on an attribute it cannot parse.
NewAttrError ==
  /\ pc = "scan"
  /\ Fails(Err("UnknownForm"))
  /\ UNCHANGED <<dwarf, header, locals, scanned, unit, call, ret, iter>>

\* Line 317: attrs.next() yields None, the loop ends.
NewAttrsEnd ==
  /\ pc = "scan"
  /\ pc' = "line_program"
  /\ UNCHANGED <<dwarf, header, locals, scanned, result, unit, call, ret, iter>>

\* Lines 360-368: build the line program if an offset was captured.
NewLineProgram ==
  /\ pc = "line_program"
  /\ IF locals.line_program_offset = None
     THEN pc' = "return" /\ UNCHANGED <<locals, result>>
     ELSE LET program == LineProgram(dwarf, header, locals)
          IN  IF IsErr(program)
              THEN Fails(program) /\ UNCHANGED locals
              ELSE /\ locals' = [locals EXCEPT !.line_program = Some(program.val)]
                   /\ pc' = "return"
                   /\ UNCHANGED result
  /\ UNCHANGED <<dwarf, header, scanned, unit, call, ret, iter>>

\* Lines 370-381: return the unit.
NewReturn ==
  /\ pc = "return"
  /\ pc' = "done"
  /\ result' = Ok(AssembleUnit(header, locals))
  /\ unit' = AssembleUnit(header, locals)
  /\ UNCHANGED <<dwarf, header, locals, scanned, call, ret, iter>>

NextNew ==
  \/ NewAbbreviations
  \/ NewRoot
  \/ NewAttr
  \/ NewAttrError
  \/ NewAttrsEnd
  \/ NewLineProgram
  \/ NewReturn

SpecNew == InitNew /\ [][NextNew]_vars

\* ------------------------------------------------------------------------
\* Properties of DwarfUnit::new (checked under SpecNew)
\* ------------------------------------------------------------------------

BaseNames ==
  {"DW_AT_str_offsets_base", "DW_AT_addr_base", "DW_AT_loclists_base",
   "DW_AT_rnglists_base"}

\* The names whose value the scan stores only when it has the expected form.
FormCheckedNames == BaseNames \cup {"DW_AT_low_pc", "DW_AT_stmt_list"}

ExpectedForm(name) ==
  CASE name = "DW_AT_low_pc" -> "Addr"
    [] name = "DW_AT_stmt_list" -> "DebugLineRef"
    [] name = "DW_AT_str_offsets_base" -> "DebugStrOffsetsBase"
    [] name = "DW_AT_addr_base" -> "DebugAddrBase"
    [] name = "DW_AT_loclists_base" -> "DebugLocListsBase"
    [] name = "DW_AT_rnglists_base" -> "DebugRngListsBase"

\* The field of the locals (or of the unit) an attribute name is stored in.
Field(rec, name) ==
  CASE name = "DW_AT_low_pc" -> rec.low_pc
    [] name = "DW_AT_str_offsets_base" -> rec.str_offsets_base
    [] name = "DW_AT_addr_base" -> rec.addr_base
    [] name = "DW_AT_loclists_base" -> rec.loclists_base
    [] name = "DW_AT_rnglists_base" -> rec.rnglists_base

Max(S) == CHOOSE i \in S : \A j \in S : j <= i

\* The positions of the root entry's attributes called `name`, and of those
\* among them whose value has the expected form.
Named(name) == {i \in DOMAIN scanned : scanned[i].name = name}

WellFormed(name) ==
  {i \in Named(name) : scanned[i].value.form = ExpectedForm(name)}

IllFormed(name) == Named(name) \ WellFormed(name)

\* The value of the last attribute called `name` in the expected form.
LastWellFormed(name, default) ==
  IF WellFormed(name) = {} THEN default
  ELSE scanned[Max(WellFormed(name))].value.val

\* The value of the last attribute called `name`, whatever its form.
LastNamed(name) ==
  IF Named(name) = {} THEN None ELSE Some(scanned[Max(Named(name))].value)

\* DwarfUnit::new has returned a unit context.
Returned == pc = "done" /\ IsOk(result)

\* C1 as stated: a unit header with zero entries always yields
\* MissingUnitDie from construction, and no unit context.
C1_ZeroEntriesAlwaysMissingUnitDie ==
  (pc = "done" /\ header.first_entry = "none")
    => (result = Err("MissingUnitDie") /\ unit = None)

\* C1, amended: a unit header with zero entries yields no unit context; the
\* error is MissingUnitDie when the header's abbreviations decode, and the
\* abbreviation decoder's error when they do not.
C1_ZeroEntriesFail ==
  (pc = "done" /\ header.first_entry = "none")
    => /\ unit = None
       /\ result = IF IsErr(header_abbreviations(dwarf.debug_abbrev, header))
                   THEN header_abbreviations(dwarf.debug_abbrev, header)
                   ELSE Err("MissingUnitDie")

C1_Witness ==
  pc = "done" /\ header.first_entry = "none" /\ result = Err("MissingUnitDie")

\* C2 as stated: a unit whose root entry has no base attribute gets all four
\* bases equal to 0 and low_pc equal to 0.
C2_NoBasesAllZeroAndLowPcZero ==
  (Returned /\ \A n \in BaseNames : Named(n) = {})
    => /\ \A n \in BaseNames : Field(unit, n) = 0
       /\ unit.low_pc = 0

\* C2, amended: a unit whose root entry has no base attribute gets all four
\* bases equal to 0; its low_pc is 0 only if the root entry has no low_pc
\* attribute in address form, and otherwise the address of the last one.
C2_NoBasesAllZero ==
  (Returned /\ \A n \in BaseNames : Named(n) = {})
    => /\ \A n \in BaseNames : Field(unit, n) = 0
       /\ unit.low_pc = LastWellFormed("DW_AT_low_pc", 0)

C2_Witness ==
  /\ Returned
  /\ \A n \in BaseNames : Named(n) = {}
  /\ WellFormed("DW_AT_low_pc") # {}
  /\ unit.low_pc = 32

\* C3 as stated: every base attribute of the root entry whose value has the
\* expected form gives the unit's corresponding base exactly its value.
C3_EveryWellFormedBaseIsStored ==
  Returned
    => \A n \in BaseNames : \A i \in WellFormed(n) :
         Field(unit, n) = scanned[i].value.val

\* C3, amended: each base of the unit equals the value of the last attribute
\* of that name whose value has the expected form (0 if there is none); so a
\* base attribute in the expected form sets its own base, unless a later one
\* of the same name replaces it, and changes no other base.
C3_LastWellFormedBaseIsStored ==
  Returned
    => \A n \in BaseNames : Field(unit, n) = LastWellFormed(n, 0)

C3_Witness ==
  /\ Returned
  /\ Cardinality(WellFormed("DW_AT_addr_base")) = 1
  /\ unit.addr_base = 16
  /\ unit.str_offsets_base = 0
  /\ unit.loclists_base = 8

\* The unit has the default of the field an attribute name is stored in.
HasDefault(name) ==
  IF name = "DW_AT_stmt_list" THEN unit.line_program = None
  ELSE Field(unit, name) = 0

\* C4 as stated: a low_pc, statement-list or base attribute of the root
\* entry whose value has another form than expected leaves the unit's
\* corresponding field at its default.
C4_IllFormedLeavesDefault ==
  Returned
    => \A n \in FormCheckedNames : IllFormed(n) # {} => HasDefault(n)

\* The scan reads an attribute whose value has another form than expected.
ScansIllFormed ==
  /\ pc = "scan"
  /\ Len(scanned') = Len(scanned) + 1
  /\ scanned'[Len(scanned')].name \in FormCheckedNames
  /\ scanned'[Len(scanned')].value.form # ExpectedForm(scanned'[Len(scanned')].name)

\* C4, amended: a low_pc, statement-list or base attribute of the root entry
\* whose value has another form than expected is ignored: reading it raises
\* no error and changes no field, so the unit's field is what the attributes
\* of that name in the expected form make it, and the default only if there
\* is none.
C4_IllFormedIsIgnored ==
  /\ [][ScansIllFormed => (locals' = locals /\ pc' = "scan" /\ result' = result)]_vars
  /\ [](Returned =>
          /\ \A n \in FormCheckedNames \ {"DW_AT_stmt_list"} :
               Field(unit, n) = LastWellFormed(n, 0)
          /\ WellFormed("DW_AT_stmt_list") = {} => unit.line_program = None)

C4_Witness ==
  /\ Returned
  /\ IllFormed("DW_AT_low_pc") # {}
  /\ IllFormed("DW_AT_stmt_list") # {}
  /\ IllFormed("DW_AT_addr_base") # {}
  /\ unit.low_pc = 0
  /\ unit.addr_base = 0
  /\ unit.line_program = None

\* The line program the constructor builds from what a complete scan of the
\* root entry captures.
ExpectedProgram ==
  debug_line_program(dwarf.debug_line, LastWellFormed("DW_AT_stmt_list", 0),
                     header.address_size, LastNamed("DW_AT_comp_dir"),
                     LastNamed("DW_AT_name"))

\* C10: the line program is built only after the scan has ended, and only
\* if the scan captured a statement-list offset; it is built from the
\* header's address size and the comp_dir and name of the whole scan,
\* whatever the attributes' order; the constructor's error is the error of
\* DwarfUnit::new, which then returns no unit; with no offset captured the
\* unit has no line program.
C10_LineProgramAfterScan ==
  /\ [](pc \in {"root", "scan", "line_program"} => locals.line_program = None)
  /\ [](Returned =>
          unit.line_program =
            IF WellFormed("DW_AT_stmt_list") = {} THEN None
            ELSE Some(ExpectedProgram.val))
  /\ [][(pc = "line_program" /\ WellFormed("DW_AT_stmt_list") # {}
           /\ IsErr(ExpectedProgram))
          => (pc' = "done" /\ result' = ExpectedProgram /\ unit' = None)]_vars

C10_Witness ==
  /\ Returned
  /\ Len(scanned) = 3
  /\ scanned[1].name = "DW_AT_stmt_list"
  /\ scanned[2].name = "DW_AT_name"
  /\ scanned[3].name = "DW_AT_comp_dir"
  /\ unit.line_program = Some([offset |-> 2, address_size |-> header.address_size,
                               comp_dir |-> Some(scanned[3].value),
                               name |-> Some(scanned[2].value)])

\* ------------------------------------------------------------------------
\* Resolver calls on a unit context
\* ------------------------------------------------------------------------

InitResolve ==
  /\ dwarf \in Dwarfs
  /\ unit \in Units
  /\ header = unit.header
  /\ pc = "done"
  /\ locals = None
  /\ scanned = <<>>
  /\ result = None
  /\ call = None
  /\ ret = None
  /\ iter = None

\* The caller is between calls: it holds no result and no iterator.
Idle == call = None

\* A call that returns a value and opens no iterator.
Returns(op, arg, r) ==
  /\ Idle
  /\ call' = [op |-> op, arg |-> arg]
  /\ ret' = r
  /\ iter' = None
  /\ UNCHANGED <<dwarf, unit, newVars>>

\* A call that returns an iterator: `r` is the call's result and `opened`
\* the iterator in it, if any.
Opens(op, arg, r, opened) ==
  /\ Idle
  /\ call' = [op |-> op, arg |-> arg]
  /\ ret' = r
  /\ iter' = opened
  /\ UNCHANGED <<dwarf, unit, newVars>>

\* The iterator in a Result<Iter>, and in a Result<Option<Iter>>.
IterOf(r) == IF IsErr(r) THEN None ELSE Some(r.val)

IterOfOption(r) == IF IsErr(r) THEN None ELSE r.val

AttrString == \E attr \in AttrValues : Returns("attr_string", attr, attr_string(dwarf, unit, attr))

Address == \E index \in 0..MaxIndex : Returns("address", index, address(dwarf, unit, index))

RangesOffset == \E index \in 0..MaxIndex : Returns("ranges_offset", index, ranges_offset(dwarf, unit, index))

Ranges == \E offset \in 0..MaxOffset : Opens("ranges", offset, ranges(dwarf, unit, offset), IterOf(ranges(dwarf, unit, offset)))

AttrRangesOffset == \E attr \in AttrValues : Returns("attr_ranges_offset", attr, attr_ranges_offset(dwarf, unit, attr))

AttrRanges == \E attr \in AttrValues : Opens("attr_ranges", attr, attr_ranges(dwarf, unit, attr), IterOfOption(attr_ranges(dwarf, unit, attr)))

LocationsOffset == \E index \in 0..MaxIndex : Returns("locations_offset", index, locations_offset(dwarf, unit, index))

Locations == \E offset \in 0..MaxOffset : Opens("locations", offset, locations(dwarf, unit, offset), IterOf(locations(dwarf, unit, offset)))

AttrLocationsOffset == \E attr \in AttrValues : Returns("attr_locations_offset", attr, attr_locations_offset(dwarf, unit, attr))

AttrLocations == \E attr \in AttrValues : Opens("attr_locations", attr, attr_locations(dwarf, unit, attr), IterOfOption(attr_locations(dwarf, unit, attr)))

\* One pull on the open iterator.
IterNext ==
  /\ iter.tag = "Some"
  /\ LET step == ListIterNext(iter.val)
     IN  /\ iter' = Some(step.it)
         /\ ret' = step.ret
  /\ call' = [op |-> "next", arg |-> call.arg]
  /\ UNCHANGED <<dwarf, unit, newVars>>

\* The caller drops the result, and the iterator with it.
Drop ==
  /\ ~Idle
  /\ call' = None
  /\ ret' = None
  /\ iter' = None
  /\ UNCHANGED <<dwarf, unit, newVars>>

NextResolve ==
  \/ AttrString
  \/ Address
  \/ RangesOffset
  \/ Ranges
  \/ AttrRangesOffset
  \/ AttrRanges
  \/ LocationsOffset
  \/ Locations
  \/ AttrLocationsOffset
  \/ AttrLocations
  \/ IterNext
  \/ Drop

SpecResolve == InitResolve /\ [][NextResolve]_vars

\* ------------------------------------------------------------------------
\* Properties of the resolvers (checked under SpecResolve)
\* ------------------------------------------------------------------------

Called(op) == call # None /\ call.op = op

\* The last pull on an iterator of `kind` yielded an entry.
Yields(kind) ==
  /\ Called("next")
  /\ iter.val.kind = kind
  /\ IsOk(ret)
  /\ ret.val # None

\* The entry the iterator decoded last.
LastEntry == iter.val.entries[iter.val.last]

\* The address at `index` of the unit's part of the address table.
TableAddress(index) ==
  ReadUint(dwarf.debug_addr, unit.addr_base + index * unit.header.address_size,
           unit.header.address_size)

\* The entries of the open list, before the one decoded last, that set a
\* base address.
BaseSetters ==
  {k \in (iter.val.start + 1)..(iter.val.last - 1) :
     \/ iter.val.entries[k].kind = "BaseAddress"
     \/ /\ iter.val.entries[k].kind = "BaseAddressx"
        /\ IsOk(TableAddress(iter.val.entries[k].begin))}

\* The base address in force at the entry decoded last: that of the nearest
\* base-setting entry before it in the list, or else the unit's low_pc.
ActiveBase ==
  IF BaseSetters = {} THEN unit.low_pc
  ELSE LET e == iter.val.entries[Max(BaseSetters)]
       IN  IF e.kind = "BaseAddress" THEN e.begin ELSE TableAddress(e.begin).val

\* An iterator of `kind` starts at the offset it is opened at with the
\* unit's low_pc as its base, yields each offset pair against the base in
\* force, and is done exactly at the terminator, at a malformed entry (whose
\* error it returns) or at the end of the section.
TracksBase(kind, opens) ==
  /\ (call # None /\ call.op \in opens /\ iter.tag = "Some")
       => /\ iter.val.base_address = unit.low_pc
          /\ iter.val.pos = iter.val.start
          /\ ~iter.val.done
  /\ (Yields(kind) /\ LastEntry.kind = "OffsetPair")
       => /\ ret.val.val.begin = ActiveBase + LastEntry.begin
          /\ ret.val.val.end = ActiveBase + LastEntry.end
  /\ (Yields(kind) /\ LastEntry.kind = "StartEnd")
       => /\ ret.val.val.begin = LastEntry.begin
          /\ ret.val.val.end = LastEntry.end
  /\ (Called("next") /\ iter.val.kind = kind /\ iter.val.last > 0)
       => /\ LastEntry.kind = "End" => (ret = Ok(None) /\ iter.val.done)
          /\ LastEntry.kind = "Bad" => (ret \in {Ok(None), Err("UnknownListEntry")} /\ iter.val.done)
          /\ IsErr(ret) => LastEntry.kind \in {"Bad", "BaseAddressx", "StartxEndx"}
          /\ iter.val.done =>
               (LastEntry.kind \in {"End", "Bad"} \/ iter.val.pos = Len(iter.val.entries))

\* C5 as stated: against Dwarf::default() every resolver call fails with a
\* returned error.
C5_EveryCallOnDefaultFails ==
  (dwarf = DwarfDefault /\ call # None /\ call.op # "next") => IsErr(ret)

StringRefForms ==
  {"DebugStrRef", "DebugStrRefSup", "DebugLineStrRef", "DebugStrOffsetsIndex"}

\* C5, amended: against Dwarf::default() a resolver call fails exactly when
\* it has to look something up in a section or is given a non-string form:
\* attr_string on anything but an inline string, address, ranges_offset,
\* locations_offset, and the attr_* calls on an index form all return an
\* error.  The calls that look nothing up succeed: attr_string on an inline
\* string returns it, attr_ranges_offset and attr_locations_offset return a
\* direct reference's offset, and the attr_* calls return Ok(None) for an
\* unrelated kind.
C5_CallsOnDefault ==
  (dwarf = DwarfDefault /\ call # None) =>
    CASE call.op = "attr_string" ->
           ret = IF call.arg.form = "String" THEN Ok(call.arg.str)
                 ELSE IF call.arg.form \in StringRefForms THEN Err("UnexpectedEof")
                 ELSE Err("ExpectedStringAttributeValue")
      [] call.op \in {"address", "ranges_offset", "locations_offset"} ->
           IsErr(ret)
      [] call.op = "attr_ranges_offset" ->
           IF call.arg.form = "DebugRngListsIndex" THEN IsErr(ret)
           ELSE ret = IF call.arg.form = "RangeListsRef"
                      THEN Ok(Some(call.arg.val)) ELSE Ok(None)
      [] call.op = "attr_locations_offset" ->
           IF call.arg.form = "DebugLocListsIndex" THEN IsErr(ret)
           ELSE ret = IF call.arg.form = "LocationListsRef"
                      THEN Ok(Some(call.arg.val)) ELSE Ok(None)
      [] call.op = "attr_ranges" /\ call.arg.form # "RangeListsRef" ->
           IF call.arg.form = "DebugRngListsIndex" THEN IsErr(ret) ELSE ret = Ok(None)
      [] call.op = "attr_locations" /\ call.arg.form # "LocationListsRef" ->
           IF call.arg.form = "DebugLocListsIndex" THEN IsErr(ret) ELSE ret = Ok(None)
      [] OTHER -> TRUE

C5_Witness ==
  /\ dwarf = DwarfDefault
  /\ Called("attr_string")
  /\ call.arg.form = "DebugStrOffsetsIndex"
  /\ ret = Err("UnexpectedEof")

\* C6 as stated: a location-list iterator resolves the index-form fields of
\* its entries against the unit's loclists_base.
C6_IndicesUseLoclistsBase ==
  (Yields("loc") /\ LastEntry.kind = "StartxEndx")
    => /\ Ok(ret.val.val.begin) =
            get_address(dwarf.debug_addr, unit.header.address_size,
                        unit.loclists_base, LastEntry.begin)
       /\ Ok(ret.val.val.end) =
            get_address(dwarf.debug_addr, unit.header.address_size,
                        unit.loclists_base, LastEntry.end)

\* C6, amended: a location-list iterator resolves the index-form fields of
\* its entries in the address table against the unit's addr_base (the
\* loclists_base is used only by locations_offset); it starts with the
\* unit's low_pc as its base and follows the base and terminator rules of
\* the range-list iterator, and each entry carries its expression.
C6_IndicesUseAddrBase ==
  /\ (Yields("loc") /\ LastEntry.kind = "StartxEndx")
       => /\ Ok(ret.val.val.begin) = TableAddress(LastEntry.begin)
          /\ Ok(ret.val.val.end) = TableAddress(LastEntry.end)
  /\ Yields("loc") => ret.val.val.data = LastEntry.data
  /\ TracksBase("loc", {"locations", "attr_locations"})

C6_Witness ==
  /\ Yields("loc")
  /\ LastEntry.kind = "StartxEndx"
  /\ unit.addr_base = 8
  /\ unit.loclists_base = 0
  /\ unit.header.address_size = 8
  /\ ret.val.val.begin = 32
  /\ ret.val.val.end = 48

\* C7: attr_string on a string-offsets index returns what attr_string
\* returns on the direct primary-table offset stored at
\* str_offsets_base + index * word size of the string-offsets table, and the
\* error of the table read when that read fails.
C7_IndexIsDirectOffset ==
  (Called("attr_string") /\ call.arg.form = "DebugStrOffsetsIndex") =>
    LET width == IF unit.header.format = "Dwarf64" THEN 8 ELSE 4
        stored == ReadUint(dwarf.debug_str_offsets,
                           unit.str_offsets_base + call.arg.val * width, width)
    IN  ret = IF IsErr(stored) THEN stored
              ELSE attr_string(dwarf, unit, AV("DebugStrRef", stored.val))

C7_Witness ==
  /\ Called("attr_string")
  /\ call.arg.form = "DebugStrOffsetsIndex"
  /\ call.arg.val = 1
  /\ unit.str_offsets_base = 8
  /\ unit.header.format = "Dwarf32"
  /\ ret = Ok(<<97, 98>>)

\* C8: a range-list iterator starts with the unit's low_pc as its base;
\* after a base-setting entry the offset pairs that follow are yielded
\* against the new base; the iterator ends at the terminator, and a
\* malformed entry ends it with an error.
C8_RangesTrackBase == TracksBase("rng", {"ranges", "attr_ranges"})

C8_Witness ==
  /\ Yields("rng")
  /\ iter.val.start = 0
  /\ iter.val.last = 3
  /\ unit.low_pc = 16
  /\ ret = Ok(Some([begin |-> 65, end |-> 66]))

RangeForms == {"RangeListsRef", "DebugRngListsIndex"}

LocationForms == {"LocationListsRef", "DebugLocListsIndex"}

\* C9: the attr_* calls return Ok(None) for an attribute value that is
\* neither the direct reference nor the index form of their list family; the
\* attr_*_offset calls return a direct reference's offset as it is, whatever
\* the aggregate and the unit.
C9_UnrelatedIsNone ==
  /\ (call # None /\ call.op \in {"attr_ranges_offset", "attr_ranges"})
       => (call.arg.form \notin RangeForms => ret = Ok(None))
  /\ (call # None /\ call.op \in {"attr_locations_offset", "attr_locations"})
       => (call.arg.form \notin LocationForms => ret = Ok(None))
  /\ (Called("attr_ranges_offset") /\ call.arg.form = "RangeListsRef")
       => ret = Ok(Some(call.arg.val))
  /\ (Called("attr_locations_offset") /\ call.arg.form = "LocationListsRef")
       => ret = Ok(Some(call.arg.val))

C9_Witness ==
  /\ Called("attr_locations")
  /\ call.arg.form = "String"
  /\ dwarf = DwarfFull
  /\ ret = Ok(None)

====
